---------------------------- MODULE Spec2Model ----------------------------
(***************************************************************************)
(* A model of the mask store (openhsl/hs_mask.py), the windowing engine    *)
(* and ground-truth sampler (openhsl/data/utils.py) and the patch          *)
(* extractor (openhsl/data/tf_dataloader.py) of OpenHSL.                   *)
(*                                                                         *)
(* numpy arrays are records [kind, ndim, dtype, shape, v] with 0-based      *)
(* indices: v[r][c] for a 2D array and v[r][c][l] for a 3D one.  Python's  *)
(* None is the record None.                                                *)
(* Each subsystem has its own specification (SpecMask, SpecMaskOps,        *)
(* SpecSample, SpecWindow, SpecGrouper, SpecPatch, SpecTestGen); the       *)
(* variables of the other subsystems stay at Idle.                         *)
(***************************************************************************)
EXTENDS Integers, Sequences, FiniteSets, TLC

VARIABLES
    pc,           \* position of the caller: which call has been made
    raised,       \* exception raised by the last call ("none" when it returned)
    ret,          \* value returned by the last call
    mask,         \* HSMask.__init__: the mask argument
    lcArg,        \* HSMask.__init__: the label_class argument
    data,         \* HSMask.data
    label_class,  \* HSMask.label_class
    n_classes,    \* HSMask.n_classes (<<>> while the attribute is not set)
    gt,           \* sample_gt: the gt argument
    train_size,   \* sample_gt: the train_size argument, in tenths (5 is 0.5)
    mode,         \* sample_gt: the mode argument
    rng42,        \* the split RandomState(42) draws (Idle while not yet drawn)
    first,        \* sample_gt: the outcome of the first of two calls
    win,          \* sliding_window: image.shape[:2], window_size, step, and the caller
    gen,          \* sliding_window: the position of the suspended generator
    acc,          \* what the consumer of the generator has built so far
    patch,        \* create_patches: X, y, patch_size and remove_zero_labels
    grp           \* grouper: n and the iterable

maskVars == <<mask, lcArg, data, label_class, n_classes>>
sampleVars == <<gt, train_size, mode, rng42, first>>
windowVars == <<win, gen, acc>>
patchVars == <<patch>>
grpVars == <<grp>>
vars == <<pc, raised, ret, maskVars, sampleVars, windowVars, patchVars, grpVars>>

----------------------------------------------------------------------------
(* Bounds of the model *)

\* largest number of elements of an array argument
MaxCells == 4
\* largest value stored in an array argument
MaxVal == 3
\* largest class label of a ground-truth map
MaxLabel == 2
\* largest side of an image given to sliding_window, and largest step
MaxDim == 5
\* largest patch_size
MaxPatch == 5
\* largest length of the iterable given to grouper, and largest group size
MaxSeq == 4
MaxGroup == 3
\* largest number of layers a stack is grown to by add_void_layer and
\* add_completed_layer
MaxLayers == 3

(* Program constants *)

\* number of values of dtype uint8 (astype('uint8'))
Uint8Card == 256

----------------------------------------------------------------------------
(* Python and numpy values *)

None == [kind |-> "None"]
Idle == [kind |-> "Idle"]

IsNone(x) == x.kind = "None"

\* range(n)
Range(n) == 0 .. n - 1

\* the pixels of an h x w image
Idx2(h, w) == Range(h) \X Range(w)

Array2(dt, h, w, f) ==
    [kind |-> "nd", ndim |-> 2, dtype |-> dt, shape |-> <<h, w>>, v |-> f]

Array3(dt, h, w, k, f) ==
    [kind |-> "nd", ndim |-> 3, dtype |-> dt, shape |-> <<h, w, k>>, v |-> f]

\* the values of an array, as a set
Values(a) ==
    IF a.ndim = 2
    THEN {a.v[p[1]][p[2]] : p \in Idx2(a.shape[1], a.shape[2])}
    ELSE {a.v[p[1]][p[2]][l] : p \in Idx2(a.shape[1], a.shape[2]), l \in Range(a.shape[3])}

\* mask.shape[-1]
LastDim(a) == a.shape[Len(a.shape)]

Min(S) == CHOOSE x \in S : \A y \in S : x <= y
Max(S) == CHOOSE x \in S : \A y \in S : x >= y

\* the elements of a finite set of integers in ascending order
RECURSIVE SortedSeq(_)
SortedSeq(S) ==
    IF S = {} THEN <<>>
    ELSE IF Min(S) = Max(S) THEN <<Min(S)>>
    ELSE LET mid == (Min(S) + Max(S)) \div 2
         IN  SortedSeq({x \in S : x <= mid}) \o SortedSeq({x \in S : x > mid})

\* np.unique(a): the sorted distinct values
NpUnique(a) == SortedSeq(Values(a))

\* np.any(a): None is falsy, an array is truthy when some element is nonzero
NpAny(a) == IF IsNone(a) THEN FALSE ELSE \E x \in Values(a) : x /= 0

\* mask[:, :, l] of a 3D array, as a 2D array
Layer(a, l) ==
    Array2(a.dtype, a.shape[1], a.shape[2],
           [r \in Range(a.shape[1]) |-> [c \in Range(a.shape[2]) |-> a.v[r][c][l]]])

\* np.transpose(np.array(layers), (1, 2, 0)) of a sequence of 2D arrays
Stack(dt, h, w, layers) ==
    Array3(dt, h, w, Len(layers),
           [r \in Range(h) |-> [c \in Range(w) |->
               [l \in Range(Len(layers)) |-> layers[l + 1].v[r][c]]]])

----------------------------------------------------------------------------
(* HSMask: validation and conversion *)

IntDtypes == {"uint8", "uint16", "uint32", "uint64", "int8", "int16", "int32", "int64"}

\* np.all(np.unique(mask) != np.array(range(0, len(np.unique(mask)))))
AllDifferFromRange(u) == \A i \in 1 .. Len(u) : u[i] /= i - 1

IsCorrect2dMask(m) ==
    IF Len(m.shape) > 2 THEN FALSE
    ELSE IF m.dtype \notin IntDtypes THEN FALSE
    ELSE IF AllDifferFromRange(NpUnique(m)) THEN FALSE
    ELSE TRUE

\* np.all(np.unique(layer) != np.array([0, 1])): the results numpy can give.
\* One distinct value broadcasts against [0, 1]; two compare elementwise; with
\* three or more the shapes do not broadcast: numpy before 1.25 answers the
\* scalar True with a DeprecationWarning, later versions raise ValueError.
LayerDiffers(u) ==
    IF Len(u) = 1 THEN {IF u[1] /= 0 /\ u[1] /= 1 THEN "True" ELSE "False"}
    ELSE IF Len(u) = 2 THEN {IF u[1] /= 0 /\ u[2] /= 1 THEN "True" ELSE "False"}
    ELSE {"True", "ValueError"}

\* the loop over np.transpose(mask, (2, 0, 1)), from layer l on
RECURSIVE LayersBinaryFrom(_, _)
LayersBinaryFrom(m, l) ==
    IF l >= m.shape[3] THEN {"True"}
    ELSE LET d == LayerDiffers(NpUnique(Layer(m, l)))
         IN  (IF "True" \in d THEN {"False"} ELSE {})
               \cup (IF "ValueError" \in d THEN {"ValueError"} ELSE {})
               \cup (IF "False" \in d THEN LayersBinaryFrom(m, l + 1) ELSE {})

\* __is_correct_3d_mask: the set of its outcomes ("True", "False" or
\* "ValueError", the latter also from np.transpose with three axes on an array
\* that has not three dimensions)
IsCorrect3dMask(m) ==
    IF Len(m.shape) /= 3 /\ LastDim(m) < 2 THEN {"False"}
    ELSE IF Len(m.shape) /= 3 THEN {"ValueError"}
    ELSE LayersBinaryFrom(m, 0)

\* __is_correct_class_dict(d, class_count); a dict is modelled by its key set.
\* np.array(d.keys()) is a 0-d object array holding the dict_keys view, which
\* differs from every integer of the range, so the second conjunct is true.
IsCorrectClassDict(d, class_count) ==
    IF IsNone(d) \/ d.keys = {} THEN FALSE
    ELSE IF Cardinality(d.keys) /= class_count /\ TRUE THEN FALSE
    ELSE TRUE

\* a conversion that marks a layer hot from its class upwards
Convert2dTo3dMaskGE(m) ==
    LET u == NpUnique(m)
    IN  Array3("uint8", m.shape[1], m.shape[2], Len(u),
               [r \in Range(m.shape[1]) |-> [c \in Range(m.shape[2]) |->
                   [l \in Range(Len(u)) |-> IF m.v[r][c] >= u[l + 1] THEN 1 ELSE 0]]])

\* convert_2d_to_3d_mask: one layer (mask == cl) per cl of np.unique(mask)
Convert2dTo3dMask(m) ==
    LET u == NpUnique(m)
    IN  Array3("uint8", m.shape[1], m.shape[2], Len(u),
               [r \in Range(m.shape[1]) |-> [c \in Range(m.shape[2]) |->
                   [l \in Range(Len(u)) |-> IF m.v[r][c] = u[l + 1] THEN 1 ELSE 0]]])

\* astype('uint8') of a float64 holding the integer x.  Out of range the C
\* conversion is undefined: the build wraps (x86-64) or saturates (AArch64).
CastModes == {"wrap", "saturate"}
AsUint8(x, cast) ==
    IF x \in 0 .. Uint8Card - 1 THEN x
    ELSE IF cast = "wrap" THEN x % Uint8Card
    ELSE Uint8Card - 1

\* the loop `mask_2d[layer == 1] = cl` over cl = lo, ..., hi - 1 at pixel p:
\* the cl of the last iteration that assigns to the pixel, <<>> when none
\* does.  The iterations are taken as two halves, the later half first, as the
\* last assignment is the one that stays.
RECURSIVE LastAssigned(_, _, _, _)
LastAssigned(m, p, lo, hi) ==
    IF hi <= lo THEN <<>>
    ELSE IF hi = lo + 1 THEN (IF m.v[p[1]][p[2]][lo] = 1 THEN <<lo>> ELSE <<>>)
    ELSE LET mid == (lo + hi) \div 2
             later == LastAssigned(m, p, mid, hi)
         IN  IF later /= <<>> THEN later ELSE LastAssigned(m, p, lo, mid)

\* a loop that leaves a pixel alone once it is set: the first hot layer stays
OverwriteFirst(m, p) ==
    LET a == {l \in Range(m.shape[3]) : m.v[p[1]][p[2]][l] = 1}
    IN  IF a = {} THEN 0 ELSE Min(a)

\* mask_2d at pixel p after the loop over the layers, from np.zeros before it
Overwrite(m, p) ==
    LET a == LastAssigned(m, p, 0, m.shape[3])
    IN  IF a = <<>> THEN 0 ELSE a[1]

\* the loop with the layers numbered from 1 (enumerate(..., 1))
OverwriteFrom1(m, p) ==
    LET a == LastAssigned(m, p, 0, m.shape[3])
    IN  IF a = <<>> THEN 0 ELSE a[1] + 1

\* a projection that numbers the layers from 1 (enumerate(..., 1))
Convert3dTo2dMaskFrom1(m, cast) ==
    Array2("uint8", m.shape[1], m.shape[2],
           [r \in Range(m.shape[1]) |-> [c \in Range(m.shape[2]) |->
               AsUint8(OverwriteFrom1(m, <<r, c>>), cast)]])

\* convert_3d_to_2d_mask
Convert3dTo2dMask(m, cast) ==
    Array2("uint8", m.shape[1], m.shape[2],
           [r \in Range(m.shape[1]) |-> [c \in Range(m.shape[2]) |->
               AsUint8(Overwrite(m, <<r, c>>), cast)]])

----------------------------------------------------------------------------
(* Arguments of the mask store *)

Shapes2 == {s \in (1 .. MaxCells) \X (1 .. MaxCells) : s[1] * s[2] <= MaxCells}
Shapes3 == {s \in (1 .. MaxCells) \X (1 .. MaxCells) \X (1 .. MaxCells) :
               s[1] * s[2] * s[3] <= MaxCells}

Arrays2(dtypes) ==
    UNION {{Array2(dt, s[1], s[2], f) : f \in [Range(s[1]) -> [Range(s[2]) -> 0 .. MaxVal]]} :
              <<dt, s>> \in dtypes \X Shapes2}

Arrays3(dtypes) ==
    UNION {{Array3(dt, s[1], s[2], s[3], f) :
               f \in [Range(s[1]) -> [Range(s[2]) -> [Range(s[3]) -> 0 .. MaxVal]]]} :
              <<dt, s>> \in dtypes \X Shapes3}

\* the 1 x n label map 0, 1, ..., n - 1
Ramp(n) == Array2("int64", 1, n, [r \in Range(1) |-> [c \in Range(n) |-> c]])

MaskArgs ==
    {None} \cup Arrays2({"int64", "float64"}) \cup Arrays3({"uint8"})
           \cup {Ramp(Uint8Card), Ramp(Uint8Card + 1)}

Dict(ks) == [kind |-> "dict", keys |-> ks]
LabelClassArgs == {None, Dict({0, 1}), Dict({0, 1, 2}), Dict({1, 2})}

\* a valid LabelMap: a 2D integer array whose values are exactly 0 .. K-1
NClasses(m) == Cardinality(Values(m))
IsLabelMap(m) ==
    /\ m.kind = "nd" /\ m.ndim = 2 /\ m.dtype \in IntDtypes
    /\ Values(m) = 0 .. NClasses(m) - 1

----------------------------------------------------------------------------
(* HSMask operations *)

InitMask ==
    /\ pc = "new"
    /\ raised = "none"
    /\ ret = None
    /\ mask \in MaskArgs
    /\ lcArg \in LabelClassArgs
    /\ data = None
    /\ label_class = None
    /\ n_classes = <<>>
    /\ gt = Idle /\ train_size = 0 /\ mode = "idle"
    /\ rng42 = Idle /\ first = Idle
    /\ win = Idle /\ gen = Idle /\ acc = Idle
    /\ patch = Idle
    /\ grp = Idle

\* lines 58-64 of __init__, once self.data is d
InitTail(d) ==
    /\ data' = d
    /\ label_class' = IF NpAny(d) /\ IsCorrectClassDict(lcArg, LastDim(d))
                      THEN lcArg ELSE None
    /\ IF IsNone(d)
       THEN /\ raised' = "AttributeError"
            /\ pc' = "failed"
            /\ n_classes' = <<>>
       ELSE /\ raised' = "none"
            /\ pc' = "constructed"
            /\ n_classes' = <<LastDim(d)>>

\* HSMask.__init__(mask, label_class)
HSMaskInit ==
    /\ pc = "new"
    /\ IF NpAny(mask)
       THEN IF IsCorrect2dMask(mask)
            THEN InitTail(Convert2dTo3dMask(mask))
            ELSE \E o \in IsCorrect3dMask(mask) :
                    IF o = "ValueError"
                    THEN /\ raised' = "ValueError"
                         /\ pc' = "failed"
                         /\ UNCHANGED <<data, label_class, n_classes>>
                    ELSE InitTail(IF o = "True" THEN mask ELSE None)
       ELSE /\ data' = None
            /\ label_class' = None
            /\ raised' = "none"
            /\ pc' = "constructed"
            /\ UNCHANGED n_classes
    /\ UNCHANGED <<ret, mask, lcArg, sampleVars, windowVars, patchVars, grpVars>>

\* HSMask.get_2d()
GetTwoD ==
    /\ pc = "constructed"
    /\ IF IsNone(data)
       THEN /\ raised' = "AttributeError"
            /\ ret' = None
       ELSE /\ raised' = "none"
            /\ \E cast \in CastModes : ret' = Convert3dTo2dMask(data, cast)
    /\ pc' = "get_2d"
    /\ UNCHANGED <<maskVars, sampleVars, windowVars, patchVars, grpVars>>

\* HSMask.convert_2d_to_3d_mask(mask), called as the static method it is.
\* On an array that is not 2D the layers (mask == cl) are not 2D either and
\* np.transpose(mask_3d, (1, 2, 0)) raises.
StaticConvert2dTo3d ==
    /\ pc = "new"
    /\ mask.kind = "nd"
    /\ IF mask.ndim = 2
       THEN raised' = "none" /\ ret' = Convert2dTo3dMask(mask)
       ELSE raised' = "ValueError" /\ ret' = None
    /\ pc' = "to3d"
    /\ UNCHANGED <<maskVars, sampleVars, windowVars, patchVars, grpVars>>

Bool(b) == [kind |-> "bool", val |-> b]

\* HSMask.__is_correct_2d_mask(mask), called on its own
StaticIsCorrect2dMask ==
    /\ pc = "new"
    /\ mask.kind = "nd"
    /\ raised' = "none"
    /\ ret' = Bool(IsCorrect2dMask(mask))
    /\ pc' = "valid2d"
    /\ UNCHANGED <<maskVars, sampleVars, windowVars, patchVars, grpVars>>

\* HSMask.__is_correct_3d_mask(mask), called on its own
StaticIsCorrect3dMask ==
    /\ pc = "new"
    /\ mask.kind = "nd"
    /\ \E o \in IsCorrect3dMask(mask) :
          IF o = "ValueError"
          THEN raised' = "ValueError" /\ ret' = None
          ELSE raised' = "none" /\ ret' = Bool(o = "True")
    /\ pc' = "valid3d"
    /\ UNCHANGED <<maskVars, sampleVars, windowVars, patchVars, grpVars>>

NextMask ==
    \/ HSMaskInit
    \/ GetTwoD
    \/ StaticConvert2dTo3d
    \/ StaticIsCorrect2dMask
    \/ StaticIsCorrect3dMask

SpecMask == InitMask /\ [][NextMask]_vars

----------------------------------------------------------------------------
(* HSMask: the operations on a constructed mask *)

\* a 1 x 2 array of the two values a and b
Row2(dt, a, b) == Array2(dt, 1, 2, [r \in Range(1) |-> [c \in Range(2) |-> IF c = 0 THEN a ELSE b]])

\* a 1 x 2 x K array: pixel (0, 0) holds the sequence p of K values, pixel
\* (0, 1) the sequence q
Stack2(p, q) ==
    Array3("uint8", 1, 2, Len(p),
           [r \in Range(1) |-> [c \in Range(2) |->
               [l \in Range(Len(p)) |-> IF c = 0 THEN p[l + 1] ELSE q[l + 1]]]])

\* the arrays the masks of this part are constructed from: label maps (one
\* all zero, one that starts at 1) and stacks of one layer and of two layers
\* with a pixel hot in both
OpsMaskArgs ==
    {None,
     Row2("int64", 0, 1), Row2("int64", 0, 0), Row2("int64", 1, 2),
     Stack2(<<1>>, <<0>>), Stack2(<<1, 1>>, <<0, 1>>)}

\* the arrays of the files given to load: label maps (one that starts at 1)
\* and stacks of three layers and of one layer
LoadArgs ==
    {Row2("uint8", 1, 0), Row2("uint8", 2, 1),
     Stack2(<<1, 0, 0>>, <<0, 0, 1>>), Stack2(<<1>>, <<0>>)}

OpsLabelClassArgs == {None, Dict({0, 1})}

\* the layers given to add_completed_layer: 1 x 2 layers with the values
\* {0, 1}, {0}, {1} and {0, 2}, and a layer of zero and one of another shape
OpsLayerArgs ==
    {Row2("uint8", 0, 1), Row2("uint8", 1, 0), Row2("uint8", 0, 0),
     Row2("uint8", 1, 1), Row2("uint8", 0, 2),
     Array2("uint8", 2, 1, [r \in Range(2) |-> [c \in Range(1) |-> r]])}

\* the positions given to delete_layer, add_void_layer, add_completed_layer:
\* from the last layer counted from the end to one past the end
PosArgs == -1 .. MaxLayers

\* the file extensions: an image (.jpg, .jpeg, .bmp, .png), an array file
\* (.npy, .mat, .h5: the three branches are the same code) and any other
Extensions == {"image", "array", "other"}

InitMaskOps ==
    /\ pc = "new"
    /\ raised = "none"
    /\ ret = None
    /\ mask \in OpsMaskArgs
    /\ lcArg \in OpsLabelClassArgs
    /\ data = None
    /\ label_class = None
    /\ n_classes = <<>>
    /\ gt = Idle /\ train_size = 0 /\ mode = "idle"
    /\ rng42 = Idle /\ first = Idle
    /\ win = Idle /\ gen = Idle /\ acc = Idle
    /\ patch = Idle
    /\ grp = Idle

\* the positions of the caller at which the object exists
Alive == pc \in {"constructed", "delete_layer", "add_void_layer",
                 "add_completed_layer", "load"}

\* list(np.transpose(self.data, (2, 0, 1)))
LayerList(d) == [k \in 1 .. d.shape[3] |-> Layer(d, k - 1)]

\* np.transpose(np.array(tmp_list), (1, 2, 0)) for layers of one shape
Restack(d, layers) ==
    Stack(IF \A k \in 1 .. Len(layers) : layers[k].dtype = d.dtype
          THEN d.dtype ELSE "int64",
          d.shape[1], d.shape[2], layers)

\* the index at which list.insert(pos, x) puts x in a list of length n
InsertIndex(n, pos) ==
    IF pos < 0 THEN (IF pos + n < 0 THEN 0 ELSE pos + n)
    ELSE IF pos > n THEN n ELSE pos

\* tmp_list.insert(pos, x)
ListInsert(s, pos, x) ==
    LET i == InsertIndex(Len(s), pos)
    IN  [k \in 1 .. Len(s) + 1 |->
            IF k <= i THEN s[k] ELSE IF k = i + 1 THEN x ELSE s[k - 1]]

\* the index list.pop(pos) removes from a list of length n; -1 stands for
\* IndexError
PopIndex(n, pos) ==
    IF pos < 0 THEN (IF pos + n < 0 THEN -1 ELSE pos + n)
    ELSE IF pos >= n THEN -1 ELSE pos

\* tmp_list after tmp_list.pop(pos), for a position in range
ListPop(s, pos) ==
    LET i == PopIndex(Len(s), pos)
    IN  [k \in 1 .. Len(s) - 1 |-> IF k <= i THEN s[k] ELSE s[k + 1]]

\* a call that raises exc and changes nothing
Fails(exc) ==
    /\ raised' = exc
    /\ UNCHANGED <<data, label_class, n_classes>>

\* HSMask.delete_layer(pos).  np.transpose(None, (2, 0, 1)) raises
\* ValueError, and so does the transposition of the empty array that is left
\* when the only layer is popped.
DeleteLayer(pos) ==
    /\ Alive
    /\ IF IsNone(data) THEN Fails("ValueError")
       ELSE IF PopIndex(data.shape[3], pos) = -1 THEN Fails("IndexError")
       ELSE IF data.shape[3] = 1 THEN Fails("ValueError")
       ELSE /\ data' = Restack(data, ListPop(LayerList(data), pos))
            /\ raised' = "none"
            /\ UNCHANGED <<label_class, n_classes>>
    /\ pc' = "delete_layer"
    /\ UNCHANGED <<ret, mask, lcArg, sampleVars, windowVars, patchVars, grpVars>>

\* a layer as np.empty would leave it, with a value the memory held
ZerosUninitialised(d) ==
    Array2("uint8", d.shape[1], d.shape[2],
           [r \in Range(d.shape[1]) |-> [c \in Range(d.shape[2]) |-> 2]])

\* np.zeros(self.data.shape[:-1], dtype="uint8")
Zeros(d) ==
    Array2("uint8", d.shape[1], d.shape[2],
           [r \in Range(d.shape[1]) |-> [c \in Range(d.shape[2]) |-> 0]])

\* the stacks the model grows: those with fewer than MaxLayers layers
BelowMaxLayers(d) == IF IsNone(d) THEN TRUE ELSE d.shape[3] < MaxLayers

\* HSMask.add_void_layer(pos)
AddVoidLayer(pos) ==
    /\ Alive
    /\ BelowMaxLayers(data)
    /\ IF IsNone(data) THEN Fails("ValueError")
       ELSE /\ data' = Restack(data, ListInsert(LayerList(data), pos, Zeros(data)))
            /\ raised' = "none"
            /\ UNCHANGED <<label_class, n_classes>>
    /\ pc' = "add_void_layer"
    /\ UNCHANGED <<ret, mask, lcArg, sampleVars, windowVars, patchVars, grpVars>>

\* a validation that accepts every layer of zeros and ones
IsCorrectBinaryLayerSubset(d, layer) ==
    /\ layer.shape = <<d.shape[1], d.shape[2]>>
    /\ Values(layer) \subseteq {0, 1}

\* __is_correct_binary_layer(layer): the shapes are compared as tuples;
\* np.unique(layer) == np.array([0, 1]) is elementwise for two distinct values,
\* broadcasts one distinct value against both, and for three or more is the
\* scalar False or raises ValueError, which rejects the layer as well
IsCorrectBinaryLayer(d, layer) ==
    /\ layer.shape = <<d.shape[1], d.shape[2]>>
    /\ LET u == NpUnique(layer)
       IN  IF Len(u) = 1 THEN u[1] = 0 /\ u[1] = 1
           ELSE IF Len(u) = 2 THEN u[1] = 0 /\ u[2] = 1
           ELSE FALSE

\* HSMask.add_completed_layer(pos, layer); self.data.shape raises
\* AttributeError when data is None
AddCompletedLayer(pos, layer) ==
    /\ Alive
    /\ BelowMaxLayers(data)
    /\ IF IsNone(data) THEN Fails("AttributeError")
       ELSE IF ~IsCorrectBinaryLayer(data, layer) THEN Fails("ValueError")
       ELSE /\ data' = Restack(data, ListInsert(LayerList(data), pos, layer))
            /\ raised' = "none"
            /\ UNCHANGED <<label_class, n_classes>>
    /\ pc' = "add_completed_layer"
    /\ UNCHANGED <<ret, mask, lcArg, sampleVars, windowVars, patchVars, grpVars>>

LoadTailKeepsClasses(d) ==
    IF IsNone(d) THEN Fails("AttributeError")
    ELSE /\ data' = d
         /\ n_classes' = <<LastDim(d)>>
         /\ UNCHANGED label_class
         /\ raised' = "none"

\* lines 358-359 of load, once self.data is d
LoadTail(d) ==
    IF IsNone(d) THEN Fails("AttributeError")
    ELSE /\ data' = d
         /\ n_classes' = <<LastDim(d)>>
         /\ label_class' = Dict({})
         /\ raised' = "none"

\* HSMask.load(path_to_data, key) of a file with the extension ext that
\* holds the array content (an image is read as a 2D uint8 array)
Load(ext, content) ==
    /\ Alive
    /\ ext = "image" => (content.ndim = 2 /\ content.dtype = "uint8")
    /\ IF ext = "other" THEN LoadTail(data)
       ELSE IF IsCorrect2dMask(content) THEN LoadTail(Convert2dTo3dMask(content))
       ELSE IF ext = "image" THEN Fails("ValueError")
       ELSE \E o \in IsCorrect3dMask(content) :
               IF o = "True" THEN LoadTail(content) ELSE Fails("ValueError")
    /\ pc' = "load"
    /\ UNCHANGED <<ret, mask, lcArg, sampleVars, windowVars, patchVars, grpVars>>

IntVal(n) == [kind |-> "int", val |-> n]

\* the value of len(self): HSMask.__len__
MaskLen(d) == IF NpAny(d) THEN LastDim(d) ELSE 0

\* HSMask.__len__(), called as len(mask)
Len_ ==
    /\ Alive
    /\ raised' = "none"
    /\ ret' = IntVal(MaskLen(data))
    /\ pc' = "len"
    /\ UNCHANGED <<maskVars, sampleVars, windowVars, patchVars, grpVars>>

\* HSMask.__getitem__(item), called as mask[item].  A negative item is below
\* every length: self.data[:, :, item] then counts from the last layer, fails
\* with IndexError below the first, and with TypeError when data is None.
GetItem(item) ==
    /\ Alive
    /\ IF item >= MaskLen(data)
       THEN raised' = "IndexError" /\ ret' = None
       ELSE IF IsNone(data)
       THEN raised' = "TypeError" /\ ret' = None
       ELSE IF item + LastDim(data) < 0
       THEN raised' = "IndexError" /\ ret' = None
       ELSE /\ raised' = "none"
            /\ ret' = Layer(data, IF item < 0 THEN item + LastDim(data) ELSE item)
    /\ pc' = "getitem"
    /\ UNCHANGED <<maskVars, sampleVars, windowVars, patchVars, grpVars>>

NextMaskOps ==
    \/ HSMaskInit
    \/ \E pos \in PosArgs : DeleteLayer(pos)
    \/ \E pos \in PosArgs : AddVoidLayer(pos)
    \/ \E pos \in PosArgs, layer \in OpsLayerArgs : AddCompletedLayer(pos, layer)
    \/ \E ext \in Extensions, content \in LoadArgs : Load(ext, content)

SpecMaskOps == InitMaskOps /\ [][NextMaskOps]_vars

\* a mask that is constructed, edited layer by layer and never loaded, with
\* the two observers of its layers
NextMaskEdit ==
    \/ HSMaskInit
    \/ \E pos \in PosArgs : DeleteLayer(pos)
    \/ \E pos \in PosArgs : AddVoidLayer(pos)
    \/ \E pos \in PosArgs, layer \in OpsLayerArgs : AddCompletedLayer(pos, layer)
    \/ Len_
    \/ \E item \in PosArgs : GetItem(item)

SpecMaskEdit == InitMaskOps /\ [][NextMaskEdit]_vars

----------------------------------------------------------------------------
(* sample_gt *)

\* the shape of the ground-truth maps of the model
GtShape == <<3, 2>>
GtMaps ==
    {Array2("int64", GtShape[1], GtShape[2], f) :
        f \in [Range(GtShape[1]) -> [Range(GtShape[2]) -> 0 .. MaxLabel]]}

\* train_size arguments, in tenths: 0.5, 1.0, 2 and 2.5
TrainSizes == {5, 10, 20, 25}
SampleModes == {"random", "fixed", "disjoint", "bogus"}

Pixels(g) == Idx2(g.shape[1], g.shape[2])
At(g, p) == g.v[p[1]][p[2]]

\* np.nonzero(gt == c), as a set of pixels
ClassPixels(g, c) == {p \in Pixels(g) : At(g, p) = c}
\* np.nonzero(gt), as a set of pixels
NonZero(g) == {p \in Pixels(g) : At(g, p) /= 0}

\* a conversion that rounds up instead of truncating
EffectiveSizeCeil(ts) == IF ts > 10 THEN ((ts + 9) \div 10) * 10 ELSE ts

\* `if train_size > 1: train_size = int(train_size)`, in tenths
EffectiveSize(ts) == IF ts > 10 THEN (ts \div 10) * 10 ELSE ts

\* sklearn's _validate_shuffle_split(n, test_size=None, train_size): the
\* number of train samples, 0 when it raises ValueError.  ts is the effective
\* size: an int when above 1.0, a float otherwise.
NTrainSwapped(n, ts) ==
    IF ts > 10
    THEN (IF ts \div 10 >= n THEN 0 ELSE n - ts \div 10)
    ELSE IF ts <= 0 \/ ts >= 10 THEN 0
    ELSE n - (ts * n) \div 10

NTrain(n, ts) ==
    IF ts > 10
    THEN (IF ts \div 10 >= n THEN 0 ELSE ts \div 10)
    ELSE IF ts <= 0 \/ ts >= 10 THEN 0
    ELSE (ts * n) \div 10

\* g with the pixels outside S set to 0 (np.zeros_like, then the indexed copy)
Keep(g, S) ==
    Array2(g.dtype, g.shape[1], g.shape[2],
           [r \in Range(g.shape[1]) |-> [c \in Range(g.shape[2]) |->
               IF <<r, c>> \in S THEN g.v[r][c] ELSE 0]])

\* the position of pixel p in X = list(zip(*np.nonzero(gt))), which is in
\* row-major order
Rank(g, p) ==
    Cardinality({q \in NonZero(g) : q[1] < p[1] \/ (q[1] = p[1] /\ q[2] <= p[2])})

Split(tr, te) == [kind |-> "split", train_gt |-> tr, test_gt |-> te]
Raise(e) == [kind |-> "raise", exc |-> e]

\* a split that leaves the first of the remaining pixels out of both parts
RandomOutcomesLossy(g, ts) ==
    LET X == NonZero(g)
        n == NTrain(Cardinality(X), ts)
    IN  IF n = 0 THEN {Raise("ValueError")}
        ELSE {Split(Keep(g, tr),
                    Keep(g, {p \in X \ tr : \E q \in X \ tr : Rank(g, q) < Rank(g, p)})) :
                 tr \in {t \in SUBSET X : Cardinality(t) = n}}

\* mode 'random': train_test_split of all labeled pixels.  The permutation
\* that random_state=42 draws is not computed: every split of the computed
\* sizes is an outcome of a first call (see Draw).
RandomOutcomes(g, ts) ==
    LET X == NonZero(g)
        n == NTrain(Cardinality(X), ts)
    IN  IF n = 0 THEN {Raise("ValueError")}
        ELSE {Split(Keep(g, tr), Keep(g, X \ tr)) :
                 tr \in {t \in SUBSET X : Cardinality(t) = n}}

\* the nonzero values of np.unique(gt)
Classes(g) == {c \in Values(g) : c /= 0}

\* a fixed split whose second part is the whole map
FixedOutcomesOverlap(g, ts) ==
    IF \E c \in Classes(g) : NTrain(Cardinality(ClassPixels(g, c)), ts) = 0
    THEN {Raise("ValueError")}
    ELSE {Split(Keep(g, tr), Keep(g, NonZero(g))) :
             tr \in {t \in SUBSET NonZero(g) :
                        \A c \in Classes(g) :
                           Cardinality(t \cap ClassPixels(g, c))
                              = NTrain(Cardinality(ClassPixels(g, c)), ts)}}

\* mode 'fixed': one unseeded train_test_split per nonzero class
FixedOutcomes(g, ts) ==
    IF \E c \in Classes(g) : NTrain(Cardinality(ClassPixels(g, c)), ts) = 0
    THEN {Raise("ValueError")}
    ELSE {Split(Keep(g, tr), Keep(g, NonZero(g) \ tr)) :
             tr \in {t \in SUBSET NonZero(g) :
                        \A c \in Classes(g) :
                           Cardinality(t \cap ClassPixels(g, c))
                              = NTrain(Cardinality(ClassPixels(g, c)), ts)}}

\* np.count_nonzero(mask[:x, :]) for mask = (gt == c)
FirstHalfCount(g, c, x) == Cardinality({p \in ClassPixels(g, c) : p[1] < x})

\* ratio > 0.9 * train_size, with ratio = first / (first + second)
RatioExceeds(g, c, x, ts) ==
    100 * FirstHalfCount(g, c, x) > 9 * ts * Cardinality(ClassPixels(g, c))

\* the value of x after `for x in range(gt.shape[0])`: where it breaks, or the
\* last row when it does not
StopRow(g, c, ts) ==
    IF \E x \in Range(g.shape[1]) : RatioExceeds(g, c, x, ts)
    THEN Min({x \in Range(g.shape[1]) : RatioExceeds(g, c, x, ts)})
    ELSE g.shape[1] - 1

\* a train_gt that clears the class in the rows before x (`mask[x:, :] = 0`)
DisjointTrainBottom(g, ts) ==
    Array2(g.dtype, g.shape[1], g.shape[2],
           [r \in Range(g.shape[1]) |-> [c \in Range(g.shape[2]) |->
               IF r < StopRow(g, g.v[r][c], ts) THEN 0 ELSE g.v[r][c]]])

\* train_gt of mode 'disjoint': for each class, `mask[:x, :] = 0` and
\* `train_gt[mask] = 0` clear the class in the rows from x on
DisjointTrain(g, ts) ==
    Array2(g.dtype, g.shape[1], g.shape[2],
           [r \in Range(g.shape[1]) |-> [c \in Range(g.shape[2]) |->
               IF r >= StopRow(g, g.v[r][c], ts) THEN 0 ELSE g.v[r][c]]])

\* test_gt of a mode 'disjoint' that leaves out `test_gt[train_gt > 0] = 0`
DisjointTestCopy(g, tr) == g

\* test_gt of mode 'disjoint': np.copy(gt), then test_gt[train_gt > 0] = 0
DisjointTest(g, tr) ==
    Array2(g.dtype, g.shape[1], g.shape[2],
           [r \in Range(g.shape[1]) |-> [c \in Range(g.shape[2]) |->
               IF tr.v[r][c] > 0 THEN 0 ELSE g.v[r][c]]])

\* a mode 'disjoint' that cuts along the columns (`mask[:, :x] = 0`)
DisjointOutcomesByColumn(g, ts) ==
    LET tr == Array2(g.dtype, g.shape[1], g.shape[2],
                     [r \in Range(g.shape[1]) |-> [c \in Range(g.shape[2]) |->
                         IF c >= StopRow(g, g.v[r][c], ts) THEN 0 ELSE g.v[r][c]]])
    IN  {Split(tr, DisjointTest(g, tr))}

\* mode 'disjoint'
DisjointOutcomes(g, ts) ==
    {Split(DisjointTrain(g, ts), DisjointTest(g, DisjointTrain(g, ts)))}

\* a dispatch that falls back to 'random' for an unknown mode
SampleGtFallback(g, ts, md) ==
    IF md = "fixed" THEN FixedOutcomes(g, EffectiveSize(ts))
    ELSE IF md = "disjoint" THEN DisjointOutcomes(g, EffectiveSize(ts))
    ELSE RandomOutcomes(g, EffectiveSize(ts))

\* sample_gt(gt, train_size, mode): the set of its outcomes
SampleGt(g, ts, md) ==
    IF md = "random" THEN RandomOutcomes(g, EffectiveSize(ts))
    ELSE IF md = "fixed" THEN FixedOutcomes(g, EffectiveSize(ts))
    ELSE IF md = "disjoint" THEN DisjointOutcomes(g, EffectiveSize(ts))
    ELSE {Raise("ValueError")}

InitSample ==
    /\ pc = "new"
    /\ raised = "none"
    /\ ret = None
    /\ gt \in GtMaps
    /\ train_size \in TrainSizes
    /\ mode \in SampleModes
    /\ rng42 = Idle
    /\ first = Idle
    /\ mask = Idle /\ lcArg = Idle /\ data = Idle /\ label_class = Idle
    /\ n_classes = <<>>
    /\ win = Idle /\ gen = Idle /\ acc = Idle
    /\ patch = Idle
    /\ grp = Idle

\* what a split shows of the generator's draw: the number of samples and the
\* positions in X of the train samples
Draw(g, o) ==
    [n |-> Cardinality(NonZero(g)),
     train |-> {Rank(g, p) : p \in NonZero(o.train_gt)}]

\* a split that passes no random_state
SeededNever(md) == FALSE

\* whether the split of the mode is seeded: random_state=42 is passed in
\* mode 'random' and left out in mode 'fixed'
Seeded(md) == md = "random"

\* RandomState(42) is created anew by each seeded train_test_split and gives
\* the same permutation for the same number of samples: an outcome agrees
\* with the generator when nothing is drawn yet for its number of samples or
\* it shows the same draw
AgreesWithSeed(g, md, o, drawn) ==
    (/\ Seeded(md) /\ o.kind = "split" /\ drawn /= Idle
     /\ drawn.n = Cardinality(NonZero(g))) => Draw(g, o) = drawn

\* the call sample_gt(gt, train_size, mode); gt is only read
CallSampleGt ==
    /\ pc = "new"
    /\ \E o \in SampleGt(gt, train_size, mode) :
          /\ AgreesWithSeed(gt, mode, o, rng42)
          /\ IF o.kind = "raise"
             THEN raised' = o.exc /\ ret' = None
             ELSE raised' = "none" /\ ret' = o
          /\ rng42' = IF Seeded(mode) /\ o.kind = "split" THEN Draw(gt, o) ELSE rng42
    /\ pc' = "sample_gt"
    /\ UNCHANGED <<maskVars, gt, train_size, mode, first, windowVars, patchVars, grpVars>>

\* a second call sample_gt(gt, train_size, mode) with the same arguments
CallSampleGtAgain ==
    /\ pc = "sample_gt"
    /\ first' = [raised |-> raised, ret |-> ret]
    /\ \E o \in SampleGt(gt, train_size, mode) :
          /\ AgreesWithSeed(gt, mode, o, rng42)
          /\ IF o.kind = "raise"
             THEN raised' = o.exc /\ ret' = None
             ELSE raised' = "none" /\ ret' = o
          /\ rng42' = IF Seeded(mode) /\ o.kind = "split" THEN Draw(gt, o) ELSE rng42
    /\ pc' = "sample_gt_again"
    /\ UNCHANGED <<maskVars, gt, train_size, mode, windowVars, patchVars, grpVars>>

NextSample == CallSampleGt \/ CallSampleGtAgain

SpecSample == InitSample /\ [][NextSample]_vars

\* train_size=0.9 of the second split of Model.fit_nn, in tenths
ValTrainSize == 9

\* the second split of Model.fit_nn: sample_gt(train_gt, 0.9, mode) on the
\* train_gt of the first, which fit_nn reaches when the first call returned.
\* `first` keeps what the first call returned.
CallSampleGtVal ==
    /\ pc = "sample_gt" /\ raised = "none"
    /\ first' = [raised |-> raised, ret |-> ret]
    /\ \E o \in SampleGt(ret.train_gt, ValTrainSize, mode) :
          /\ AgreesWithSeed(ret.train_gt, mode, o, rng42)
          /\ IF o.kind = "raise"
             THEN raised' = o.exc /\ ret' = None
             ELSE raised' = "none" /\ ret' = o
          /\ rng42' = IF Seeded(mode) /\ o.kind = "split"
                      THEN Draw(ret.train_gt, o) ELSE rng42
    /\ pc' = "fit_nn_split"
    /\ UNCHANGED <<maskVars, gt, train_size, mode, windowVars, patchVars, grpVars>>

\* lines 118-124 of Model.fit_nn
NextFitNn == CallSampleGt \/ CallSampleGtVal

SpecFitNn == InitSample /\ [][NextFitNn]_vars

----------------------------------------------------------------------------
(* sliding_window and count_sliding_window *)

\* The image enters by image.shape[:2] = (W, H) alone; with_data=True adds
\* the slice image[x:x + w, y:y + h] to each element, which x, y, w, h fix.
WindowArgs ==
    [W : 1 .. MaxDim, H : 1 .. MaxDim, w : 1 .. MaxDim + 1, h : 1 .. MaxDim + 1,
     step : 1 .. MaxDim, caller : {"list", "count_sliding_window"}]

\* the stop values of the two ranges: dim - window + (dim - window) % step + 1
StopX(a) == a.W - a.w + ((a.W - a.w) % a.step) + 1
StopY(a) == a.H - a.h + ((a.H - a.h) % a.step) + 1

\* a loop that yields the loop variable as the range gives it
ClampNever(x, w, dim) == x

\* `if x + w > W: x = W - w`
Clamp(x, w, dim) == IF x + w > dim THEN dim - w ELSE x

\* the element yielded with the loop variables at cx and cy
Window(a, cx, cy) ==
    [x |-> Clamp(cx, a.w, a.W), y |-> Clamp(cy, a.h, a.H), w |-> a.w, h |-> a.h]

\* a range that drops its last, partial stride
RangeSeqShort(stop, step) ==
    [i \in 1 .. (IF stop <= 0 THEN 0 ELSE stop \div step) |-> (i - 1) * step]

\* list(range(0, stop, step))
RangeSeq(stop, step) ==
    [i \in 1 .. (IF stop <= 0 THEN 0 ELSE (stop + step - 1) \div step) |->
        (i - 1) * step]

\* list(sliding_window(image, step, window_size, with_data=False)): the
\* nested loops, x outermost
SlidingWindowList(a) ==
    LET xs == RangeSeq(StopX(a), a.step)
        ys == RangeSeq(StopY(a), a.step)
    IN  [k \in 1 .. Len(xs) * Len(ys) |->
            Window(a, xs[(k - 1) \div Len(ys) + 1], ys[((k - 1) % Len(ys)) + 1])]

InitWindow ==
    /\ pc = "new"
    /\ raised = "none"
    /\ ret = None
    /\ win \in WindowArgs
    /\ gen = Idle
    /\ acc = Idle
    /\ patch = Idle
    /\ grp = Idle
    /\ mask = Idle /\ lcArg = Idle /\ data = Idle /\ label_class = Idle
    /\ n_classes = <<>>
    /\ gt = Idle /\ train_size = 0 /\ mode = "idle"
    /\ rng42 = Idle /\ first = Idle

\* sliding_window(...) called: the generator is created, suspended before
\* its first statement; x and y are the values the two range iterators give
\* next
GenStart == [kind |-> "generator", x |-> 0, y |-> 0]

\* list(sliding_window(image, step, window_size, with_data))
CallList ==
    /\ pc = "new" /\ win.caller = "list"
    /\ gen' = GenStart
    /\ acc' = <<>>
    /\ pc' = "iterating"
    /\ UNCHANGED <<raised, ret, win, maskVars, sampleVars, patchVars, grpVars>>

\* count_sliding_window(top, step, window_size): sum(1 for _ in sw)
CallCount ==
    /\ pc = "new" /\ win.caller = "count_sliding_window"
    /\ gen' = GenStart
    /\ acc' = 0
    /\ pc' = "iterating"
    /\ UNCHANGED <<raised, ret, win, maskVars, sampleVars, patchVars, grpVars>>

\* whether next(generator) raises StopIteration: the outer range is used up,
\* or the inner range is empty for every x
Exhausted(a, g) == g.x >= StopX(a) \/ StopY(a) <= 0

\* the generator after the yield at g: the inner loop advances, and when its
\* range is used up the outer loop does
Advance(a, g) ==
    IF g.y + a.step < StopY(a)
    THEN [g EXCEPT !.y = g.y + a.step]
    ELSE [g EXCEPT !.x = g.x + a.step, !.y = 0]

\* the consumer takes the element e: list appends it, sum adds 1
Consume(caller, sofar, e) ==
    IF caller = "list" THEN Append(sofar, e) ELSE sofar + 1

\* next(generator) in the consumer's loop
GenNext ==
    /\ pc = "iterating" /\ ~Exhausted(win, gen)
    /\ acc' = Consume(win.caller, acc, Window(win, gen.x, gen.y))
    /\ gen' = Advance(win, gen)
    /\ UNCHANGED <<pc, raised, ret, win, maskVars, sampleVars, patchVars, grpVars>>

Value(x) == [kind |-> "value", val |-> x]

\* StopIteration: the consumer returns what it has built
GenStop ==
    /\ pc = "iterating" /\ Exhausted(win, gen)
    /\ ret' = Value(acc)
    /\ pc' = "done"
    /\ UNCHANGED <<raised, win, gen, acc, maskVars, sampleVars, patchVars, grpVars>>

NextWindow == CallList \/ CallCount \/ GenNext \/ GenStop

SpecWindow == InitWindow /\ [][NextWindow]_vars

\* the consumer's loop runs to its end: no step of it is left untaken
SpecWindowLive == SpecWindow /\ WF_vars(NextWindow)

----------------------------------------------------------------------------
(* grouper *)

\* the sequences of length up to n over S
SeqsUpTo(S, n) == UNION {[1 .. k -> S] : k \in 0 .. n}

\* n (a negative one and 0 included) and the iterable, a finite sequence
GrouperArgs == [n : -1 .. MaxGroup, s : SeqsUpTo({"a", "b"}, MaxSeq)]

\* a chunk filled up to n elements with None (itertools.zip_longest)
ChunkPadded(s, k, n) ==
    [i \in 1 .. (IF k < Len(s) THEN n ELSE 0) |->
        IF k + i <= Len(s) THEN s[k + i] ELSE "None"]

\* tuple(itertools.islice(it, n)) for n >= 0 when it has given k elements of
\* s: the next n elements, or those that are left
Chunk(s, k, n) == SubSeq(s, k + 1, IF k + n < Len(s) THEN k + n ELSE Len(s))

InitGrouper ==
    /\ pc = "new"
    /\ raised = "none"
    /\ ret = None
    /\ grp \in GrouperArgs
    /\ mask = Idle /\ lcArg = Idle /\ data = Idle /\ label_class = Idle
    /\ n_classes = <<>>
    /\ gt = Idle /\ train_size = 0 /\ mode = "idle"
    /\ rng42 = Idle /\ first = Idle
    /\ win = Idle /\ gen = Idle /\ acc = Idle
    /\ patch = Idle

\* list(grouper(n, iterable)): the generator is created, suspended before
\* `it = iter(iterable)`; it.k counts the elements the iterator has given
CallGrouper ==
    /\ pc = "new"
    /\ gen' = [kind |-> "generator", k |-> 0]
    /\ acc' = <<>>
    /\ pc' = "grouping"
    /\ UNCHANGED <<raised, ret, win, maskVars, sampleVars, patchVars, grpVars>>

\* next(generator) up to `yield chunk`: list appends the chunk
GrouperYield ==
    /\ pc = "grouping"
    /\ grp.n >= 0
    /\ Chunk(grp.s, gen.k, grp.n) /= <<>>
    /\ acc' = Append(acc, Chunk(grp.s, gen.k, grp.n))
    /\ gen' = [gen EXCEPT !.k = gen.k + Len(Chunk(grp.s, gen.k, grp.n))]
    /\ UNCHANGED <<pc, raised, ret, win, maskVars, sampleVars, patchVars, grpVars>>

\* next(generator) up to `return`: the chunk is empty and list returns what it
\* has; with a negative n islice raises ValueError
GrouperReturn ==
    /\ pc = "grouping"
    /\ IF grp.n < 0
       THEN raised' = "ValueError" /\ ret' = None
       ELSE /\ Chunk(grp.s, gen.k, grp.n) = <<>>
            /\ raised' = "none"
            /\ ret' = Value(acc)
    /\ pc' = "grouped"
    /\ UNCHANGED <<win, gen, acc, maskVars, sampleVars, patchVars, grpVars>>

NextGrouper == CallGrouper \/ GrouperYield \/ GrouperReturn

SpecGrouper == InitGrouper /\ [][NextGrouper]_vars

\* the consumer's loop runs to its end: no step of it is left untaken
SpecGrouperLive == SpecGrouper /\ WF_vars(NextGrouper)

----------------------------------------------------------------------------
(* create_patches *)

\* the numbers of bands of the images of the model
Bands == {1, 2}

\* The H x W x B image whose voxels are 1, 2, 3, ... in storage order.
\* create_patches copies voxels without reading them, and on pairwise
\* distinct nonzero voxels every placement shows.
RampImage(h, w, b) ==
    Array3("float64", h, w, b,
           [r \in Range(h) |-> [c \in Range(w) |-> [k \in Range(b) |->
               1 + k + b * (c + w * r)]]])

LabelMaps ==
    UNION {{Array2("int64", sh[1], sh[2], f) :
               f \in [Range(sh[1]) -> [Range(sh[2]) -> 0 .. MaxLabel]]} :
              sh \in Shapes2}

PatchArgs ==
    {[X |-> RampImage(l.shape[1], l.shape[2], b), y |-> l,
      patch_size |-> ps, remove_zero_labels |-> rz] :
        l \in LabelMaps, b \in Bands, ps \in 1 .. MaxPatch, rz \in BOOLEAN}

\* a padding that puts X in the corner of the new array
PadWithZerosCorner(X, margin) ==
    Array3(X.dtype, X.shape[1] + 2 * margin, X.shape[2] + 2 * margin, X.shape[3],
           [r \in Range(X.shape[1] + 2 * margin) |->
              [c \in Range(X.shape[2] + 2 * margin) |->
                 [k \in Range(X.shape[3]) |->
                    IF r \in Range(X.shape[1]) /\ c \in Range(X.shape[2])
                    THEN X.v[r][c][k] ELSE 0]]])

\* pad_with_zeros(X, margin)
PadWithZeros(X, margin) ==
    Array3(X.dtype, X.shape[1] + 2 * margin, X.shape[2] + 2 * margin, X.shape[3],
           [r \in Range(X.shape[1] + 2 * margin) |->
              [c \in Range(X.shape[2] + 2 * margin) |->
                 [k \in Range(X.shape[3]) |->
                    IF r - margin \in Range(X.shape[1]) /\ c - margin \in Range(X.shape[2])
                    THEN X.v[r - margin][c - margin][k] ELSE 0]]])

\* margin = int((patch_size - 1) / 2)
Margin(ps) == (ps - 1) \div 2

\* zero_padded_X[r - margin:r + margin + 1, c - margin:c + margin + 1], a
\* cube of side 2 * margin + 1, with r and c indices of the padded array
Slice(P, r, c, margin) ==
    [i \in Range(2 * margin + 1) |-> [j \in Range(2 * margin + 1) |->
        [k \in Range(P.shape[3]) |-> P.v[r - margin + i][c - margin + j][k]]]]

\* whether `patches_data[patch_index, :, :, :] = patch` broadcasts: the side
\* of the patch is patch_size or 1
Broadcasts(ps) == 2 * Margin(ps) + 1 = ps \/ 2 * Margin(ps) + 1 = 1

\* patches_data[patch_index] after the assignment of the slice src
Assigned(src, ps, nb) ==
    [i \in Range(ps) |-> [j \in Range(ps) |-> [k \in Range(nb) |->
        IF 2 * Margin(ps) + 1 = ps THEN src[i][j][k] ELSE src[0][0][k]]]]

\* the patch and the label written at patch_index = n (0-based) by the loops
\* over r and c
PatchAt(a, n) ==
    LET W == a.X.shape[2]
        m == Margin(a.patch_size)
        r == m + n \div W
        c == m + (n % W)
    IN  [data |-> Assigned(Slice(PadWithZeros(a.X, m), r, c, m),
                           a.patch_size, a.X.shape[3]),
         label |-> a.y.v[r - m][c - m]]

\* a selection that keeps every patch
SelectAll(s) == s

\* s[patches_labels > 0]: the patches with a positive label, in order
RECURSIVE SelectPositive(_)
SelectPositive(s) ==
    IF s = <<>> THEN <<>>
    ELSE IF s[1].label > 0 THEN <<s[1]>> \o SelectPositive(Tail(s))
    ELSE SelectPositive(Tail(s))

Patches(s) ==
    [kind |-> "patches",
     patches_data |-> [n \in 1 .. Len(s) |-> s[n].data],
     patches_labels |-> [n \in 1 .. Len(s) |-> s[n].label]]

\* create_patches(X, y, patch_size, remove_zero_labels): its outcome
CreatePatches(a) ==
    LET n == a.X.shape[1] * a.X.shape[2]
        all == [k \in 1 .. n |-> PatchAt(a, k - 1)]
        kept == SelectPositive(all)
    IN  IF ~Broadcasts(a.patch_size) THEN Raise("ValueError")
        ELSE IF a.remove_zero_labels
        THEN Patches([k \in 1 .. Len(kept) |->
                         [kept[k] EXCEPT !.label = kept[k].label - 1]])
        ELSE Patches(all)

InitPatch ==
    /\ pc = "new"
    /\ raised = "none"
    /\ ret = None
    /\ patch \in PatchArgs
    /\ grp = Idle
    /\ mask = Idle /\ lcArg = Idle /\ data = Idle /\ label_class = Idle
    /\ n_classes = <<>>
    /\ gt = Idle /\ train_size = 0 /\ mode = "idle"
    /\ rng42 = Idle /\ first = Idle
    /\ win = Idle /\ gen = Idle /\ acc = Idle

\* the call create_patches(X, y, patch_size, remove_zero_labels)
CallCreatePatches ==
    /\ pc = "new"
    /\ LET o == CreatePatches(patch)
       IN  IF o.kind = "raise"
           THEN raised' = o.exc /\ ret' = None
           ELSE raised' = "none" /\ ret' = o
    /\ pc' = "create_patches"
    /\ UNCHANGED <<maskVars, sampleVars, windowVars, patchVars, grpVars>>

NextPatch == CallCreatePatches

SpecPatch == InitPatch /\ [][NextPatch]_vars

----------------------------------------------------------------------------
(* get_test_generator *)

\* the arguments of get_test_generator: X and patch_size
TestGenArgs ==
    {[X |-> RampImage(sh[1], sh[2], b), patch_size |-> ps] :
        sh \in Shapes2, b \in Bands, ps \in 1 .. MaxPatch}

\* get_patch_by_indicis(data, height_index, width_index, patch_size):
\* data[i:i + patch_size, j:j + patch_size, :]; the slices end where data ends
GetPatchByIndicis(P, i, j, ps) ==
    LET hh == IF i + ps <= P.shape[1] THEN ps ELSE Max({P.shape[1] - i, 0})
        ww == IF j + ps <= P.shape[2] THEN ps ELSE Max({P.shape[2] - j, 0})
    IN  Array3(P.dtype, hh, ww, P.shape[3],
               [r \in Range(hh) |-> [c \in Range(ww) |-> [k \in Range(P.shape[3]) |->
                   P.v[i + r][j + c][k]]]])

\* the element at position f of a 3D array read in storage (C) order
Flat(a, f) ==
    a.v[f \div (a.shape[2] * a.shape[3])][(f \div a.shape[3]) % a.shape[2]][f % a.shape[3]]

\* a.reshape(a.shape[2], a.shape[0], a.shape[1]).astype('float32'): the
\* elements keep their storage order and are cut into the new shape
ReshapeChannelFirst(a) ==
    Array3("float32", a.shape[3], a.shape[1], a.shape[2],
           [b \in Range(a.shape[3]) |-> [i \in Range(a.shape[1]) |->
               [j \in Range(a.shape[2]) |->
                   Flat(a, (b * a.shape[1] + i) * a.shape[2] + j)]]])

\* X = pad_with_zeros(X, patch_size // 2)
TestPadded(a) == PadWithZeros(a.X, a.patch_size \div 2)

\* the stops of the two ranges: height - patch_size + 1, width - patch_size + 1
TestStopI(a) == TestPadded(a).shape[1] - a.patch_size + 1
TestStopJ(a) == TestPadded(a).shape[2] - a.patch_size + 1

InitTestGen ==
    /\ pc = "new"
    /\ raised = "none"
    /\ ret = None
    /\ patch \in TestGenArgs
    /\ grp = Idle
    /\ mask = Idle /\ lcArg = Idle /\ data = Idle /\ label_class = Idle
    /\ n_classes = <<>>
    /\ gt = Idle /\ train_size = 0 /\ mode = "idle"
    /\ rng42 = Idle /\ first = Idle
    /\ win = Idle /\ gen = Idle /\ acc = Idle

\* list(get_test_generator(X, patch_size)): the generator is created,
\* suspended before its first statement; i and j are the values the two
\* range iterators give next
CallTestGenerator ==
    /\ pc = "new"
    /\ gen' = [kind |-> "generator", i |-> 0, j |-> 0]
    /\ acc' = <<>>
    /\ pc' = "tiling"
    /\ UNCHANGED <<raised, ret, win, maskVars, sampleVars, patchVars, grpVars>>

\* whether next(generator) raises StopIteration
TestGenExhausted(a, g) == g.i >= TestStopI(a) \/ TestStopJ(a) <= 0

\* next(generator) up to `yield image_patch`: list appends the item
TestGenYield ==
    /\ pc = "tiling" /\ ~TestGenExhausted(patch, gen)
    /\ acc' = Append(acc, ReshapeChannelFirst(
                  GetPatchByIndicis(TestPadded(patch), gen.i, gen.j, patch.patch_size)))
    /\ gen' = IF gen.j + 1 < TestStopJ(patch)
              THEN [gen EXCEPT !.j = gen.j + 1]
              ELSE [gen EXCEPT !.i = gen.i + 1, !.j = 0]
    /\ UNCHANGED <<pc, raised, ret, win, maskVars, sampleVars, patchVars, grpVars>>

\* StopIteration: list returns the items
TestGenReturn ==
    /\ pc = "tiling" /\ TestGenExhausted(patch, gen)
    /\ ret' = Value(acc)
    /\ pc' = "tiled"
    /\ UNCHANGED <<raised, win, gen, acc, maskVars, sampleVars, patchVars, grpVars>>

NextTestGen == CallTestGenerator \/ TestGenYield \/ TestGenReturn

SpecTestGen == InitTestGen /\ [][NextTestGen]_vars

----------------------------------------------------------------------------
(* Properties of the mask store *)

\* a and b have the same shape and the same elements
SameElements(a, b) == a.kind = "nd" /\ b.kind = "nd" /\ a.shape = b.shape /\ a.v = b.v

\* C1 as stated: for every valid 2D LabelMap m with K >= 1 distinct values,
\* HSMask(m).get_2d() returns an array equal to m element for element.
C1_RoundTripAnyK ==
    (pc = "get_2d" /\ IsLabelMap(mask)) =>
        (raised = "none" /\ SameElements(ret, mask))

\* C1 amended: for every valid 2D LabelMap m with 2 <= K <= 256 distinct
\* values, HSMask(m).get_2d() returns an array equal to m element for element.
C1_RoundTrip ==
    (pc = "get_2d" /\ IsLabelMap(mask)
        /\ NClasses(mask) >= 2 /\ NClasses(mask) <= Uint8Card) =>
        (raised = "none" /\ SameElements(ret, mask))

C1_Witness ==
    /\ pc = "get_2d" /\ IsLabelMap(mask) /\ NClasses(mask) = Uint8Card
    /\ raised = "none" /\ SameElements(ret, mask)

\* C2: convert_2d_to_3d_mask(m) of a valid LabelMap m with K distinct values
\* has K layers, holds only 0 and 1, and each pixel is hot in exactly the
\* layer whose index is m at that pixel.
C2_OneHot ==
    (pc = "to3d" /\ IsLabelMap(mask)) =>
        /\ raised = "none"
        /\ ret.ndim = 3
        /\ ret.shape = <<mask.shape[1], mask.shape[2], NClasses(mask)>>
        /\ \A p \in Idx2(mask.shape[1], mask.shape[2]) :
              \A l \in Range(NClasses(mask)) :
                 /\ ret.v[p[1]][p[2]][l] \in {0, 1}
                 /\ ret.v[p[1]][p[2]][l] = 1 <=> l = mask.v[p[1]][p[2]]

C2_Witness ==
    /\ pc = "to3d" /\ IsLabelMap(mask) /\ NClasses(mask) >= 3
    /\ mask.shape[1] >= 2 /\ ret.shape[3] = NClasses(mask)

\* an array that is non-empty for np.any and passes neither validation
PassesNeither(m) ==
    /\ NpAny(m)
    /\ ~IsCorrect2dMask(m)
    /\ "True" \notin IsCorrect3dMask(m)

\* C9: constructing HSMask from a non-empty array that passes neither the 2D
\* nor the 3D validation does not raise and leaves data = None.
C9_PermissiveConstruction ==
    (pc \in {"constructed", "failed"} /\ PassesNeither(mask)) =>
        (raised = "none" /\ pc = "constructed" /\ data = None)

\* C10: the 2D validation accepts an integer array of at most 2 dimensions
\* iff its distinct values are exactly 0 .. U-1, U the number of distinct
\* values.
C10_Valid2dIffContiguous ==
    (pc = "valid2d" /\ Len(mask.shape) <= 2 /\ mask.dtype \in IntDtypes) =>
        (ret.val <=> Values(mask) = 0 .. NClasses(mask) - 1)

\* a LayerStack as the specification has it: three dimensions, at least two
\* layers, every value 0 or 1
IsLayerStack(m) ==
    /\ m.kind = "nd" /\ m.ndim = 3
    /\ m.shape[3] >= 2
    /\ Values(m) \subseteq {0, 1}

\* C11: the 3D validation accepts an array if and only if it has exactly 3
\* dimensions, at least 2 layers and only the values 0 and 1 in every layer.
C11_Valid3dIffBinaryStack ==
    pc = "valid3d" =>
        ((raised = "none" /\ ret = Bool(TRUE)) <=> IsLayerStack(mask))

\* the layers at which pixel p of the stack m is hot
HotLayers(m, p) == {k \in Range(m.shape[3]) : m.v[p[1]][p[2]][k] = 1}

\* a stack with three dimensions and only the values 0 and 1
IsBinaryStack(m) == m.kind = "nd" /\ m.ndim = 3 /\ Values(m) \subseteq {0, 1}

\* every pixel of the 2D array a holds the largest layer index at which the
\* stack m is hot there, 0 where it is hot in no layer
LastHotWins(m, a) ==
    /\ a.kind = "nd" /\ a.shape = <<m.shape[1], m.shape[2]>>
    /\ \A p \in Idx2(m.shape[1], m.shape[2]) :
          a.v[p[1]][p[2]] = IF HotLayers(m, p) = {} THEN 0 ELSE Max(HotLayers(m, p))

\* C13 as stated: get_2d() on any binary layer stack gives each pixel the
\* largest layer index at which it is hot, and 0 to a pixel hot in no layer.
C13_LastLayerWinsAnyK ==
    (pc = "get_2d" /\ IsBinaryStack(data)) =>
        (raised = "none" /\ LastHotWins(data, ret))

\* C13 amended: the same on any binary layer stack of at most 256 layers.
C13_LastLayerWins ==
    (pc = "get_2d" /\ IsBinaryStack(data) /\ data.shape[3] <= Uint8Card) =>
        (raised = "none" /\ LastHotWins(data, ret))

C13_Witness ==
    /\ pc = "get_2d" /\ IsBinaryStack(data) /\ data.shape[3] = 3
    /\ \E p \in Idx2(data.shape[1], data.shape[2]) :
          HotLayers(data, p) = {1, 2} /\ ret.v[p[1]][p[2]] = 2

\* C12: after construction from a valid array and any sequence of load,
\* delete_layer, add_void_layer and add_completed_layer, n_classes equals the
\* number of layers of the stack.
C12_NClassesIsLayerCount ==
    (Alive /\ (IsLabelMap(mask) \/ IsLayerStack(mask)) /\ ~IsNone(data)) =>
        n_classes = <<data.shape[3]>>

\* the values of layer k of the stack d
LayerValues(d, k) == Layer(d, k).v

\* the layer is rejected: ValueError, and the stack is left as it was
Rejected == raised' = "ValueError" /\ data' = data

\* the stack after the call holds the layer at index i, one layer more, and
\* the layers it had before in their order around it
InsertedAt(i, layer) ==
    /\ raised' = "none"
    /\ data'.shape = <<data.shape[1], data.shape[2], data.shape[3] + 1>>
    /\ LayerValues(data', i) = layer.v
    /\ \A k \in Range(data.shape[3]) :
          LayerValues(data', IF k < i THEN k ELSE k + 1) = LayerValues(data, k)

\* the layer has the spatial shape of the stack and exactly the values 0, 1
FitsStack(layer) ==
    /\ layer.shape = <<data.shape[1], data.shape[2]>>
    /\ Values(layer) = {0, 1}

\* C20 as stated: add_completed_layer(pos, layer) fails with ValueError and
\* leaves the stack unchanged when the layer's shape differs from the stack's
\* spatial shape or its values are not exactly {0, 1}; otherwise the layer
\* becomes layer pos of the stack, which grows by one layer and keeps the
\* other layers in their order.
C20_AddCompletedAnyPos ==
    [][\A pos \in PosArgs, layer \in OpsLayerArgs :
          (pc' = "add_completed_layer" /\ ~IsNone(data)
              /\ AddCompletedLayer(pos, layer)) =>
             IF FitsStack(layer)
             THEN pos \in 0 .. data.shape[3] /\ InsertedAt(pos, layer)
             ELSE Rejected]_vars

\* C20 amended: the same for 0 <= pos <= K, K the number of layers.
C20_AddCompleted ==
    [][\A pos \in PosArgs, layer \in OpsLayerArgs :
          (pc' = "add_completed_layer" /\ ~IsNone(data)
              /\ pos \in 0 .. data.shape[3] /\ AddCompletedLayer(pos, layer)) =>
             IF FitsStack(layer) THEN InsertedAt(pos, layer) ELSE Rejected]_vars

\* a layer was added to a stack of two layers that a label map gave: the
\* stack has three layers, each pixel hot in one of the first two before
C20_Witness ==
    /\ pc = "add_completed_layer" /\ raised = "none"
    /\ IsLabelMap(mask)
    /\ data.shape[3] = 3 /\ n_classes = <<2>>
    /\ \E i \in Range(3) : LayerValues(data, i) = Row2("uint8", 1, 0).v


\* the stack after the call has the layers it had before without layer i,
\* in their order
RemovedAt(i) ==
    /\ raised' = "none"
    /\ data'.shape = <<data.shape[1], data.shape[2], data.shape[3] - 1>>
    /\ \A k \in Range(data.shape[3]) \ {i} :
          LayerValues(data', IF k < i THEN k ELSE k - 1) = LayerValues(data, k)

\* C21: delete_layer(pos) on a stack of K layers with 0 <= pos < K removes
\* exactly layer pos, leaving the K-1 other layers in their order with their
\* contents; with pos >= K it fails with an index error and leaves the stack
\* unchanged.
C21_DeleteLayer ==
    [][\A pos \in PosArgs :
          (pc' = "delete_layer" /\ ~IsNone(data) /\ pos >= 0
              /\ DeleteLayer(pos)) =>
             IF pos < data.shape[3] THEN RemovedAt(pos)
             ELSE raised' = "IndexError" /\ data' = data]_vars


\* C22: after every successful load, whatever the state of the store before
\* it, n_classes is the number of layers of the stack the store holds now and
\* label_class is the empty mapping.
C22_LoadRefreshes ==
    [][(pc' = "load" /\ raised' = "none") =>
          /\ ~IsNone(data')
          /\ n_classes' = <<data'.shape[3]>>
          /\ label_class' = Dict({})]_vars

\* a mask of two classes was constructed with its two class descriptions,
\* and a stack of three layers was loaded over it
C22_Witness ==
    /\ pc = "load" /\ raised = "none"
    /\ mask = Row2("int64", 0, 1) /\ lcArg = Dict({0, 1})
    /\ data = Stack2(<<1, 0, 0>>, <<0, 0, 1>>)
    /\ n_classes = <<3>> /\ label_class = Dict({})


\* C23: load of a file whose array is neither a valid 2D label map nor a
\* valid 3D layer stack fails with ValueError, and data, n_classes and
\* label_class keep the values they had before the call.
C23_InvalidLoadFails ==
    [][\A ext \in Extensions \ {"other"}, content \in LoadArgs :
          (pc' = "load" /\ Load(ext, content)
              /\ ~IsLabelMap(content) /\ ~IsLayerStack(content)) =>
             /\ raised' = "ValueError"
             /\ UNCHANGED <<data, n_classes, label_class>>]_vars


\* the mask was constructed from a valid LabelMap or a valid LayerStack
ValidlyConstructed == IsLabelMap(mask) \/ IsLayerStack(mask)

\* C24: in every state reached from a validly constructed mask by delete_layer,
\* add_void_layer and add_completed_layer with at least one layer left,
\* len(store) is the number of layers of the stack, store[k] returns layer k
\* for 0 <= k < number of layers and raises an index error for k >= it.
C24_LenIsLayerCount ==
    [][(ValidlyConstructed /\ ~IsNone(data)) =>
          /\ pc' = "len" => ret' = IntVal(data.shape[3])
          /\ \A k \in 0 .. MaxLayers :
                (pc' = "getitem" /\ GetItem(k)) =>
                   IF k < data.shape[3]
                   THEN raised' = "none" /\ ret' = Layer(data, k)
                   ELSE raised' = "IndexError"]_vars


\* C25: when a mask is constructed from a valid array together with a class
\* description mapping, the array data is kept, and the mapping is stored if
\* and only if its key set is {0, ..., K-1}, K the number of layers;
\* otherwise label_class is discarded.
C25_ClassDictStoredIffKeysMatch ==
    (pc \in {"constructed", "failed"} /\ ValidlyConstructed /\ ~IsNone(lcArg)) =>
        /\ pc = "constructed" /\ ~IsNone(data)
        /\ IF lcArg.keys = 0 .. data.shape[3] - 1
           THEN label_class = lcArg
           ELSE IsNone(label_class)


\* C26: in every state reached from a mask constructed from a valid LabelMap
\* by delete_layer, add_void_layer and add_completed_layer, every layer of
\* the stack holds only the values 0 and 1 and the spatial shape of the stack
\* is the shape of the LabelMap.
C26_EditsKeepBinaryLayers ==
    (IsLabelMap(mask) /\ pc \notin {"new", "failed"} /\ ~IsNone(data)) =>
        /\ \A k \in Range(data.shape[3]) : Values(Layer(data, k)) \subseteq {0, 1}
        /\ <<data.shape[1], data.shape[2]>> = mask.shape

\* a void layer was added to the stack of a label map of two classes and
\* two layers were deleted: the void layer and a layer with a hot pixel are left
C26_Witness ==
    /\ pc = "delete_layer" /\ raised = "none"
    /\ IsLabelMap(mask) /\ n_classes = <<2>>
    /\ data.shape[3] = 2
    /\ \E i, j \in Range(2) :
          /\ Values(Layer(data, i)) = {0}
          /\ Values(Layer(data, j)) = {0, 1}


----------------------------------------------------------------------------
(* Properties of sample_gt *)

Returned == pc = "sample_gt" /\ raised = "none"

\* the pixels of class c in the map g
CountOf(g, c) == Cardinality(ClassPixels(g, c))

\* C3: in every mode the outputs of sample_gt are pixel-disjoint, and every
\* pixel that is nonzero in train_gt or test_gt is nonzero in gt and carries
\* the label it has in gt.
C3_DisjointSubsets ==
    Returned =>
        \A p \in Pixels(gt) :
            /\ ~(At(ret.train_gt, p) /= 0 /\ At(ret.test_gt, p) /= 0)
            /\ At(ret.train_gt, p) /= 0 =>
                  (At(gt, p) /= 0 /\ At(ret.train_gt, p) = At(gt, p))
            /\ At(ret.test_gt, p) /= 0 =>
                  (At(gt, p) /= 0 /\ At(ret.test_gt, p) = At(gt, p))

C3_Witness ==
    /\ Returned /\ mode = "disjoint"
    /\ Cardinality(Classes(gt)) >= 2
    /\ NonZero(ret.train_gt) /= {} /\ NonZero(ret.test_gt) /= {}

C8_UnsupportedMode ==
    [][(pc = "new" /\ pc' = "sample_gt"
          /\ mode \notin {"random", "fixed", "disjoint"}) =>
            (raised' = "ValueError" /\ ret' = None /\ gt' = gt)]_vars

C8_Witness ==
    /\ pc = "sample_gt" /\ mode = "bogus"
    /\ raised = "ValueError" /\ ret = None /\ NonZero(gt) /= {}

\* the class-c pixels of gt in the rows before row x
RowsBefore(c, x) == {p \in ClassPixels(gt, c) : p[1] < x}

\* the fraction of class-c pixels in the rows before x exceeds 0.9 * train_size
ShareExceeds(c, x) ==
    100 * Cardinality(RowsBefore(c, x)) > 9 * train_size * CountOf(gt, c)

HasStopIndex(c) == \E x \in Range(gt.shape[1]) : ShareExceeds(c, x)

\* the stop row index of class c: the first row index where the share exceeds
StopIndex(c) == Min({x \in Range(gt.shape[1]) : ShareExceeds(c, x)})

\* test_gt holds exactly the labeled pixels of gt that train_gt does not hold
TestIsComplement ==
    \A p \in Pixels(gt) :
        At(ret.test_gt, p) = IF At(ret.train_gt, p) = 0 THEN At(gt, p) ELSE 0

\* C14 as stated: in mode 'disjoint', for each class c with stop row index s,
\* train_gt keeps the class-c pixels of the rows >= s and has those of the
\* rows before s zeroed, and test_gt is the complement of train_gt among the
\* labeled pixels.
C14_DisjointKeepsBottom ==
    (Returned /\ mode = "disjoint") =>
        /\ \A c \in Classes(gt) :
              HasStopIndex(c) =>
                 \A p \in ClassPixels(gt, c) :
                    At(ret.train_gt, p) = IF p[1] >= StopIndex(c) THEN c ELSE 0
        /\ TestIsComplement

\* C14 amended: train_gt keeps the class-c pixels of the rows before s and
\* has those of the rows >= s zeroed.
C14_DisjointKeepsTop ==
    (Returned /\ mode = "disjoint") =>
        /\ \A c \in Classes(gt) :
              HasStopIndex(c) =>
                 \A p \in ClassPixels(gt, c) :
                    At(ret.train_gt, p) = IF p[1] < StopIndex(c) THEN c ELSE 0
        /\ TestIsComplement

C14_Witness ==
    /\ Returned /\ mode = "disjoint"
    /\ \E c \in Classes(gt) :
          /\ HasStopIndex(c)
          /\ RowsBefore(c, StopIndex(c)) /= {}
          /\ RowsBefore(c, StopIndex(c)) /= ClassPixels(gt, c)
          /\ ClassPixels(ret.train_gt, c) = RowsBefore(c, StopIndex(c))
          /\ ClassPixels(ret.test_gt, c)
                = ClassPixels(gt, c) \ RowsBefore(c, StopIndex(c))

\* C15: in mode 'random' with train_size t > 1 and floor(t) below the number
\* N of labeled pixels, train_gt has exactly floor(t) nonzero pixels and
\* test_gt exactly N - floor(t).
C15_AbsoluteCount ==
    (pc = "sample_gt" /\ mode = "random" /\ train_size > 10
        /\ train_size \div 10 < Cardinality(NonZero(gt))) =>
        /\ raised = "none"
        /\ Cardinality(NonZero(ret.train_gt)) = train_size \div 10
        /\ Cardinality(NonZero(ret.test_gt))
              = Cardinality(NonZero(gt)) - train_size \div 10

C15_Witness ==
    /\ pc = "sample_gt" /\ mode = "random" /\ train_size = 25
    /\ Cardinality(NonZero(gt)) = 5
    /\ Cardinality(NonZero(ret.train_gt)) = 2
    /\ Cardinality(NonZero(ret.test_gt)) = 3

\* C16: two calls of sample_gt in mode 'random' with equal gt and equal
\* train_size return identical train_gt and identical test_gt.
C16_RandomDeterministic ==
    (pc = "sample_gt_again" /\ mode = "random") =>
        (raised = first.raised /\ ret = first.ret)

C16_Witness ==
    /\ pc = "sample_gt_again" /\ mode = "random" /\ raised = "none"
    /\ Cardinality(NonZero(ret.train_gt)) >= 2
    /\ Cardinality(NonZero(ret.test_gt)) >= 2
    /\ ret = first.ret

\* C27: in the two-stage split of Model.fit_nn (sample_gt on gt giving train1
\* and test, then sample_gt on train1 with train_size 0.9 and the same mode
\* giving train and val) the maps train, val and test are pairwise
\* pixel-disjoint, and the nonzero pixels of train and val together are
\* exactly the nonzero pixels of train1.
C27_TwoStageSplit ==
    (pc = "fit_nn_split" /\ raised = "none") =>
        LET train1 == NonZero(first.ret.train_gt)
            test   == NonZero(first.ret.test_gt)
            train  == NonZero(ret.train_gt)
            val    == NonZero(ret.test_gt)
        IN  /\ train \cap val = {}
            /\ train \cap test = {}
            /\ val \cap test = {}
            /\ train \cup val = train1

\* both splits returned in mode 'fixed' and each of the three maps holds a
\* labeled pixel
C27_Witness ==
    /\ pc = "fit_nn_split" /\ raised = "none" /\ mode = "fixed"
    /\ NonZero(ret.train_gt) /= {}
    /\ NonZero(ret.test_gt) /= {}
    /\ NonZero(first.ret.test_gt) /= {}

\* s separates the class-c pixels of the map a from those of the map b: the
\* former lie in the rows before s, the latter in the rows from s on
RowSeparates(s, c, a, b) ==
    /\ \A p \in ClassPixels(a, c) : p[1] < s
    /\ \A p \in ClassPixels(b, c) : p[1] >= s

\* C28: in mode 'disjoint' the two splits are spatially separated per class:
\* for every class c there is a row index s such that the class-c pixels of
\* one output lie in the rows < s and those of the other in the rows >= s,
\* so no row holds class-c pixels of both train_gt and test_gt.
C28_DisjointRowSeparation ==
    (Returned /\ mode = "disjoint") =>
        \A c \in Classes(gt) :
            /\ \E s \in 0 .. gt.shape[1] :
                  \/ RowSeparates(s, c, ret.train_gt, ret.test_gt)
                  \/ RowSeparates(s, c, ret.test_gt, ret.train_gt)
            /\ \A r \in Range(gt.shape[1]) :
                  ~(/\ \E p \in ClassPixels(ret.train_gt, c) : p[1] = r
                    /\ \E p \in ClassPixels(ret.test_gt, c) : p[1] = r)

\* two classes are cut at different rows: each has pixels in both outputs,
\* and a row holds train pixels of one and test pixels of the other
C28_Witness ==
    /\ Returned /\ mode = "disjoint"
    /\ \E c, e \in Classes(gt) :
          /\ ClassPixels(ret.train_gt, c) /= {} /\ ClassPixels(ret.test_gt, c) /= {}
          /\ ClassPixels(ret.train_gt, e) /= {} /\ ClassPixels(ret.test_gt, e) /= {}
          /\ \E p \in ClassPixels(ret.train_gt, c), q \in ClassPixels(ret.test_gt, e) :
                p[1] = q[1]

\* C30: for every mode of 'random', 'fixed' and 'disjoint' for which sample_gt
\* returns, the split loses no labeled pixel: the pixels nonzero in train_gt
\* or test_gt are exactly the nonzero pixels of gt.
C30_NoLabeledPixelLost ==
    (Returned /\ mode \in {"random", "fixed", "disjoint"}) =>
        NonZero(ret.train_gt) \cup NonZero(ret.test_gt) = NonZero(gt)

\* a split in mode 'random' of a map with unlabeled pixels and two classes,
\* with more than one pixel in each part
C30_Witness ==
    /\ Returned /\ mode = "random"
    /\ Cardinality(Classes(gt)) = 2 /\ ClassPixels(gt, 0) /= {}
    /\ Cardinality(NonZero(ret.train_gt)) >= 2
    /\ Cardinality(NonZero(ret.test_gt)) >= 2
    /\ NonZero(ret.train_gt) \cup NonZero(ret.test_gt) = NonZero(gt)

----------------------------------------------------------------------------
(* Properties of sliding_window *)

Covers(e, i, j) == e.x <= i /\ i < e.x + e.w /\ e.y <= j /\ j < e.y + e.h

\* C4: for w <= W, h <= H and 1 <= step <= min(w, h) the windows yielded by
\* sliding_window cover every pixel of the image, the last row and the last
\* column included.
C4_FullCoverage ==
    (pc = "done" /\ win.caller = "list"
        /\ win.w <= win.W /\ win.h <= win.H
        /\ win.step <= win.w /\ win.step <= win.h) =>
        \A i \in Range(win.W), j \in Range(win.H) :
            \E k \in 1 .. Len(ret.val) : Covers(ret.val[k], i, j)

\* C5: count_sliding_window(image, step, window_size) equals the number of
\* elements of sliding_window(image, step, window_size, with_data=False),
\* and the iteration ends.
C5_CountIsLength ==
    /\ [](pc = "done" /\ win.caller = "count_sliding_window"
            => ret.val = Len(SlidingWindowList(win)))
    /\ [](pc = "done" /\ win.caller = "list" => ret.val = SlidingWindowList(win))
    /\ (pc = "iterating") ~> (pc = "done")

C5_Witness ==
    /\ pc = "done" /\ win.caller = "count_sliding_window"
    /\ win.w < win.W /\ (win.W - win.w) % win.step /= 0
    /\ ret.val >= 4 /\ ret.val = Len(SlidingWindowList(win))

\* (x, y) of the window e comes before that of f in lexicographic order
LexBefore(e, f) == e.x < f.x \/ (e.x = f.x /\ e.y < f.y)

\* the window e lies inside the W x H image
Inside(e, a) ==
    /\ 0 <= e.x /\ e.x + e.w <= a.W
    /\ 0 <= e.y /\ e.y + e.h <= a.H

\* C29: for w <= W, h <= H and step >= 1, sliding_window with with_data=False
\* yields its windows in strictly increasing lexicographic order of (x, y),
\* x outermost, so no position is yielded twice, and every yielded window
\* lies inside the image.
C29_WindowsOrderedInside ==
    (pc = "done" /\ win.caller = "list" /\ win.w <= win.W /\ win.h <= win.H) =>
        /\ \A k \in 1 .. Len(ret.val) : Inside(ret.val[k], win)
        /\ \A j, k \in 1 .. Len(ret.val) :
              j < k => LexBefore(ret.val[j], ret.val[k])

\* the last value of each range went past the image and was clamped to a
\* position that is no multiple of the step
C29_Witness ==
    /\ pc = "done" /\ win.caller = "list"
    /\ win.w < win.W /\ win.h < win.H /\ win.step >= 2
    /\ Len(ret.val) >= 4
    /\ \E k \in 1 .. Len(ret.val) :
          /\ ret.val[k].x = win.W - win.w /\ ret.val[k].x % win.step /= 0
          /\ ret.val[k].y = win.H - win.h /\ ret.val[k].y % win.step /= 0

----------------------------------------------------------------------------
(* Properties of grouper *)

\* the concatenation of the chunks, in order
RECURSIVE Concat(_)
Concat(chunks) ==
    IF chunks = <<>> THEN <<>> ELSE Head(chunks) \o Concat(Tail(chunks))

\* the chunks concatenate to s; all but the last hold n elements, the last
\* between 1 and n, and there is no element that s does not have
ChunksOf(chunks, s, n) ==
    /\ Concat(chunks) = s
    /\ \A i \in 1 .. Len(chunks) :
          /\ Len(chunks[i]) >= 1 /\ Len(chunks[i]) <= n
          /\ i < Len(chunks) => Len(chunks[i]) = n
          /\ \A j \in 1 .. Len(chunks[i]) : chunks[i][j] \in {"a", "b"}

\* C17: for every finite sequence s and n >= 1, grouper(n, s) ends, and its
\* chunks concatenate to s; every chunk but the last has n elements, the last
\* between 1 and n; no chunk is empty and nothing is padded.
C17_GrouperChunks ==
    /\ []((pc = "grouped" /\ grp.n >= 1) =>
            (raised = "none" /\ ChunksOf(ret.val, grp.s, grp.n)))
    /\ ((pc = "grouping" /\ grp.n >= 1) ~> (pc = "grouped"))

C17_Witness ==
    /\ pc = "grouped" /\ grp.n = 3 /\ Len(grp.s) = 4
    /\ Len(ret.val) = 2 /\ Len(ret.val[2]) = 1
    /\ ChunksOf(ret.val, grp.s, grp.n)

----------------------------------------------------------------------------
(* Properties of create_patches *)

\* the voxel of the zero-padded image at row r, column c, band k, in the
\* coordinates of X: X there, 0 outside X
Padded(X, r, c, k) ==
    IF r \in Range(X.shape[1]) /\ c \in Range(X.shape[2]) THEN X.v[r][c][k] ELSE 0

\* the patch_size x patch_size x B cube of the padded image around (r, c)
CentredCube(X, r, c, ps) ==
    [i \in Range(ps) |-> [j \in Range(ps) |-> [k \in Range(X.shape[3]) |->
        Padded(X, r - Margin(ps) + i, c - Margin(ps) + j, k)]]]

\* the result holds H * W patches, in row-major order, each the cube centred
\* on its pixel, with the label of the pixel
AllPatchesCentred ==
    /\ raised = "none"
    /\ Len(ret.patches_data) = patch.X.shape[1] * patch.X.shape[2]
    /\ Len(ret.patches_labels) = patch.X.shape[1] * patch.X.shape[2]
    /\ \A r \in Range(patch.X.shape[1]), c \in Range(patch.X.shape[2]) :
          LET n == r * patch.X.shape[2] + c + 1
          IN  /\ ret.patches_data[n] = CentredCube(patch.X, r, c, patch.patch_size)
              /\ ret.patches_data[n][Margin(patch.patch_size)][Margin(patch.patch_size)]
                    = patch.X.v[r][c]
              /\ ret.patches_labels[n] = patch.y.v[r][c]

\* C6 as stated: for every patch_size, create_patches(X, y, patch_size,
\* remove_zero_labels=False) returns H * W patches in row-major order, the
\* patch of pixel (r, c) being the cube of the zero-padded image centred on
\* it, with centre voxel X[r, c, :] and label y[r, c].
C6_PatchesAnySize ==
    (pc = "create_patches" /\ ~patch.remove_zero_labels) => AllPatchesCentred

\* C6 amended: the same for every odd patch_size.
C6_PatchesOddSize ==
    (pc = "create_patches" /\ ~patch.remove_zero_labels
        /\ patch.patch_size % 2 = 1) => AllPatchesCentred

C6_Witness ==
    /\ pc = "create_patches" /\ ~patch.remove_zero_labels
    /\ patch.patch_size = 5 /\ patch.X.shape = <<2, 2, 2>>
    /\ AllPatchesCentred

\* the row-major indices of the pixels whose label in y is not 0, ascending
LabeledPixels ==
    SortedSeq({n \in Range(patch.X.shape[1] * patch.X.shape[2]) :
                  patch.y.v[n \div patch.X.shape[2]][n % patch.X.shape[2]] /= 0})

\* C18: with remove_zero_labels=True create_patches returns exactly the
\* patches of the pixels whose label is nonzero, in the row-major order they
\* have without removal, each with the pixel's label minus one, which is not
\* negative and at most the largest label minus one.
C18_RemoveZeroLabels ==
    (pc = "create_patches" /\ patch.remove_zero_labels /\ raised = "none") =>
        /\ Len(ret.patches_data) = Len(LabeledPixels)
        /\ Len(ret.patches_labels) = Len(LabeledPixels)
        /\ \A j \in 1 .. Len(LabeledPixels) :
              LET n == LabeledPixels[j]
              IN  /\ ret.patches_data[j] = PatchAt(patch, n).data
                  /\ ret.patches_labels[j]
                        = patch.y.v[n \div patch.X.shape[2]][n % patch.X.shape[2]] - 1
                  /\ ret.patches_labels[j] \in 0 .. Max(Values(patch.y)) - 1

C18_Witness ==
    /\ pc = "create_patches" /\ patch.remove_zero_labels /\ raised = "none"
    /\ patch.patch_size = 3 /\ patch.X.shape = <<2, 2, 2>>
    /\ LabeledPixels = <<1, 3>>
    /\ ret.patches_labels = <<0, 1>>
    /\ ret.patches_data[2] = CentredCube(patch.X, 1, 1, 3)

----------------------------------------------------------------------------
(* Properties of get_test_generator *)

\* C19: for an odd patch_size get_test_generator yields one item per pixel in
\* row-major order, and the item of pixel (r, c) is the channel-first layout
\* of the patch centred there: item[b, i, j] is padded_X[r + i, c + j, b].
C19_ChannelFirstPatches ==
    (pc = "tiled" /\ patch.patch_size % 2 = 1) =>
        /\ Len(ret.val) = patch.X.shape[1] * patch.X.shape[2]
        /\ \A r \in Range(patch.X.shape[1]), c \in Range(patch.X.shape[2]) :
              LET item == ret.val[r * patch.X.shape[2] + c + 1]
                  m == patch.patch_size \div 2
              IN  /\ item.shape = <<patch.X.shape[3], patch.patch_size, patch.patch_size>>
                  /\ \A b \in Range(patch.X.shape[3]) :
                        \A i \in Range(patch.patch_size), j \in Range(patch.patch_size) :
                           item.v[b][i][j] = Padded(patch.X, r + i - m, c + j - m, b)

=============================================================================
